---- MODULE Spec2Model ----
(***************************************************************************)
(* Model of pony/dbproviders/sqlite.py: the thread-confinement bridge for  *)
(* the shared in-memory SQLite connection (mem_queue, Local,                *)
(* in_dedicated_thread, SqliteMemoryDbThread, MemoryConnectionWrapper,      *)
(* MemPool) and the per-thread file Pool (connect / release / drop).        *)
(***************************************************************************)
EXTENDS Integers, Sequences, FiniteSets, TLC

\* ------------------------------------------------------------- bounds
NumThreads == 2      \* caller threads of the in-memory bridge
MaxCalls == 2        \* confined calls issued in all (requests ever put on mem_queue)
MaxPools == 2        \* MemPool objects constructed through _get_pool(':memory:')
MaxCons == 2         \* physical connections the file Pool's threads may open
MaxOps == 3          \* requests ever put when proxy attributes and cursors are used

Threads == 1..NumThreads

None == 0            \* Python's None for object references (ids start at 1)

VARIABLES
    mem_queue,          \* Queue(): sequence of requests, head is taken first
    result_holder,      \* the result_holder list of every request, by request id
    lock,               \* local.lock of each thread: TRUE = held
    mem_connect_lock,   \* TRUE = held
    pc,                 \* position of each caller thread
    frame,              \* locals of the caller thread's current call
    ret,                \* what the thread's last call returned or raised
    built,              \* the MemPools whose constructor returned (provider.pool)
    poolCon,            \* mempool.con of every MemPool (sequence by pool id)
    obj,                \* wrapper.obj of every MemoryConnectionWrapper
    cons,               \* the underlying in-memory connections sqlite.connect made
    wpc,                \* position of the worker thread
    x,                  \* the request the worker holds
    wresult,            \* the worker's local: the result or exception of func
    running,            \* requests whose func is executing on the resource
    execLog,            \* request ids in the order the worker started them
    signalled,          \* requests whose caller lock the worker released
    connRet,            \* every value connect() returned, per MemPool
    torn,               \* MemPools on which __del__ ran
    rollbackOps,        \* the release and drop calls that passed their assertion
    raised,             \* the exceptions func raised on the worker
    putLog,             \* every request ever put on mem_queue, by request id
    inst,               \* instance attributes set on proxies by plain assignment
    lastUse,            \* the last attribute access or unconfined call on a proxy
    \* ---- the per-thread file Pool
    pool_made,          \* _get_pool(filename, create_db) has returned the Pool
    create_db,          \* pool.create_db
    fileExists,         \* os.path.exists(pool.filename)
    pool_con,           \* pool.con in each thread (Pool is thread-local)
    fcons,              \* the physical connections sqlite.connect(filename) made
    hand,               \* the connection each thread got from its last connect()
    pret,               \* the last Pool operation: its thread and how it ended
    cleanDue            \* the thread released and has not written since

bridgeVars == <<mem_queue, result_holder, lock, mem_connect_lock, pc, frame, ret,
                built, poolCon, obj, cons, wpc, x, wresult,
                running, execLog, signalled, connRet, torn, rollbackOps, raised, putLog,
                inst, lastUse>>

proxyVars == <<inst, lastUse>>

poolVars == <<pool_made, create_db, fileExists, pool_con, fcons, hand, pret, cleanDue>>

\* ------------------------------------------------------------- values
ExceptionTypes == {"OperationalError", "IntegrityError", "ProgrammingError",
                   "AttributeError", "AssertionError", "IndexError", "ValueError"}

\* isinstance(result, Exception)
IsException(r) == r.type \in ExceptionTypes

\* isinstance(result, sqlite.Cursor)
IsCursor(r) == r.type = "Cursor"

Value(type, msg, req) == [type |-> type, msg |-> msg, req |-> req]

NoFrame == [op |-> "none", pool |-> None, w |-> None, rid |-> None]
NoRet == [how |-> "none", val |-> Value("NoneType", "", None), rid |-> None]
NoRequest == [lock |-> None, func |-> "none", cls |-> "none", w |-> None, arg |-> "",
              rid |-> None]

\* an attribute access or unconfined call: put = it enqueued a request,
\* touched = it used the underlying object in the calling thread, during and
\* queued = the worker was executing a request / requests were waiting
Use(op, cls, name, put, touched, how) ==
    [op |-> op, cls |-> cls, name |-> name, put |-> put, touched |-> touched,
     how |-> how, during |-> touched /\ running # {}, queued |-> touched /\ mem_queue # <<>>]

NoUse == [op |-> "none", cls |-> "none", name |-> "", put |-> FALSE, touched |-> FALSE,
          how |-> "none", during |-> FALSE, queued |-> FALSE]

Sqls == {"ok", "syntax", "constraint"}

SeqRange(s) == {s[i] : i \in 1..Len(s)}

\* ------------------------------------------------- proxy class setup
sqlite_con_methods ==
    <<"cursor", "commit", "rollback", "close", "execute", "executemany", "executescript",
      "create_function", "create_aggregate", "create_collation",
      "set_authorizer", "set_process_handler">>

sqlite_con_properties == <<"isolation_level", "row_factory", "text_factory", "total_changes">>

sqlite_cur_methods ==
    <<"execute", "executemany", "executescript", "fetchone", "fetchmany", "fetchall",
      "next", "close", "setinputsize", "setoutputsize">>

sqlite_cur_properties == <<"rowcount", "lastrowid", "description", "arraysize">>

AttrNames ==
    SeqRange(sqlite_con_methods) \cup SeqRange(sqlite_con_properties)
        \cup SeqRange(sqlite_cur_methods) \cup SeqRange(sqlite_cur_properties)
        \cup {"__init__", "interrupt", "iterdump", "__iter__"}

\* a class attribute: a forwarder made by in_dedicated_thread ("method"), a
\* property whose getter and setter are forwarders ("property"), a function that
\* runs in the calling thread ("plain"), or no attribute ("absent")
make_wrapper_method(method_name) == [kind |-> "method", attr |-> method_name]

make_wrapper_property(attr) == [kind |-> "property", attr |-> attr]

PlainFunction(name) == [kind |-> "plain", attr |-> name]

NoAttr == [kind |-> "absent", attr |-> ""]

\* setattr(cls, name, value)
SetClassAttr(dict, name, value) == [dict EXCEPT ![name] = value]

\* class MemoryConnectionWrapper: __init__ and iterdump are decorated with
\* in_dedicated_thread, interrupt is not
ConClassBody ==
    [n \in AttrNames |->
        IF n \in {"__init__", "iterdump"} THEN make_wrapper_method(n)
        ELSE IF n = "interrupt" THEN PlainFunction(n)
        ELSE NoAttr]

\* class MemoryCursorWrapper: __init__ and __iter__, both undecorated
CurClassBody ==
    [n \in AttrNames |->
        IF n \in {"__init__", "__iter__"} THEN PlainFunction(n) ELSE NoAttr]

\* for m in names: setattr(cls, m, make_wrapper_method(m))
RECURSIVE MethodLoop(_, _, _)
MethodLoop(dict, names, i) ==
    IF i > Len(names) THEN dict
    ELSE MethodLoop(SetClassAttr(dict, names[i], make_wrapper_method(names[i])),
                    names, i + 1)

\* for p in sqlite_con_properties:
\*     setattr(MemoryConnectionWrapper, m, make_wrapper_property(p))
\* where m is what the preceding for loop left in it
RECURSIVE ConPropertyLoop(_, _, _, _)
ConPropertyLoop(dict, m, names, i) ==
    IF i > Len(names) THEN dict
    ELSE ConPropertyLoop(SetClassAttr(dict, m, make_wrapper_property(names[i])),
                         m, names, i + 1)

\* for p in sqlite_cur_properties:
\*     setattr(MemoryCursorWrapper, p, make_wrapper_property(p))
RECURSIVE CurPropertyLoop(_, _, _)
CurPropertyLoop(dict, names, i) ==
    IF i > Len(names) THEN dict
    ELSE CurPropertyLoop(SetClassAttr(dict, names[i], make_wrapper_property(names[i])),
                         names, i + 1)

\* the class dictionaries once the module is imported
MemoryConnectionWrapper ==
    ConPropertyLoop(MethodLoop(ConClassBody, sqlite_con_methods, 1),
                    sqlite_con_methods[Len(sqlite_con_methods)],
                    sqlite_con_properties, 1)

MemoryCursorWrapper ==
    CurPropertyLoop(MethodLoop(CurClassBody, sqlite_cur_methods, 1),
                    sqlite_cur_properties, 1)

ClassDict(cls) == IF cls = "cursor" THEN MemoryCursorWrapper ELSE MemoryConnectionWrapper

BridgeInit ==
    /\ mem_queue = <<>>
    /\ result_holder = <<>>
    /\ lock = [t \in Threads |-> TRUE]
    /\ mem_connect_lock = FALSE
    /\ pc = [t \in Threads |-> "idle"]
    /\ frame = [t \in Threads |-> NoFrame]
    /\ ret = [t \in Threads |-> NoRet]
    /\ built = {}
    /\ poolCon = <<>>
    /\ obj = <<>>
    /\ cons = <<>>
    /\ wpc = "get"
    /\ x = NoRequest
    /\ wresult = Value("NoneType", "", None)
    /\ running = {}
    /\ execLog = <<>>
    /\ signalled = {}
    /\ connRet = <<>>
    /\ torn = {}
    /\ rollbackOps = <<>>
    /\ raised = {}
    /\ putLog = <<>>
    /\ inst = {}
    /\ lastUse = NoUse

\* ------------------------------------------------ in_dedicated_thread
\* result_holder = []; mem_queue.put((local.lock, func, args, keyargs, result_holder))
Put(t, func, w, arg, op, pool) ==
    LET rid == Len(result_holder) + 1
        req == [lock |-> t, func |-> func, w |-> w, arg |-> arg, rid |-> rid,
                cls |-> IF op = "cursor" THEN "cursor" ELSE "connection"]
    IN  /\ result_holder' = Append(result_holder, <<>>)
        /\ mem_queue' = Append(mem_queue, req)
        /\ putLog' = Append(putLog, req)
        /\ ret' = [ret EXCEPT ![t] = NoRet]
        /\ frame' = [frame EXCEPT ![t] = [op |-> op, pool |-> pool, w |-> w, rid |-> rid]]
        /\ pc' = [pc EXCEPT ![t] = "acquire"]

\* Acquire with a lock that does not block (a lock that was never acquired)
Acquire_NoWait(t) ==
    /\ pc[t] = "acquire"
    /\ lock' = [lock EXCEPT ![t] = TRUE]
    /\ pc' = [pc EXCEPT ![t] = "read"]
    /\ UNCHANGED <<mem_queue, result_holder, mem_connect_lock, frame, ret,
                   built, poolCon, obj, cons, wpc, x, wresult, running,
                   execLog, signalled, connRet, torn, rollbackOps, raised, putLog>>
    /\ UNCHANGED poolVars
    /\ UNCHANGED proxyVars

\* local.lock.acquire(): blocks while the thread's own lock is held
Acquire(t) ==
    /\ pc[t] = "acquire"
    /\ ~lock[t]
    /\ lock' = [lock EXCEPT ![t] = TRUE]
    /\ pc' = [pc EXCEPT ![t] = "read"]
    /\ UNCHANGED <<mem_queue, result_holder, mem_connect_lock, frame, ret, built, poolCon, obj, cons, wpc, x, wresult, running,
                   execLog, signalled, connRet, torn, rollbackOps, raised, putLog>>
    /\ UNCHANGED poolVars
    /\ UNCHANGED proxyVars

\* CallOutcome that replaces the worker's exception by a generic error
CallOutcome_Generic(holder, rid) ==
    IF Len(holder) = 0
    THEN [how |-> "raise", rid |-> rid,
          val |-> Value("IndexError", "list index out of range", None)]
    ELSE LET result == holder[1] IN
         IF IsException(result)
         THEN [how |-> "raise", rid |-> rid,
               val |-> Value("Exception", "error in dedicated thread", result.req)]
         ELSE IF IsCursor(result)
              THEN [how |-> "return", rid |-> rid,
                    val |-> Value("MemoryCursorWrapper", result.msg, result.req)]
              ELSE [how |-> "return", val |-> result, rid |-> rid]

\* CallOutcome that returns a raw cursor as it is
CallOutcome_NoWrap(holder, rid) ==
    IF Len(holder) = 0
    THEN [how |-> "raise", rid |-> rid,
          val |-> Value("IndexError", "list index out of range", None)]
    ELSE LET result == holder[1] IN
         IF IsException(result) THEN [how |-> "raise", val |-> result, rid |-> rid]
         ELSE [how |-> "return", val |-> result, rid |-> rid]

\* result = result_holder[0]; raise it if it is an Exception, wrap it if it is a
\* Cursor, return it otherwise
CallOutcome(holder, rid) ==
    IF Len(holder) = 0
    THEN [how |-> "raise", rid |-> rid,
          val |-> Value("IndexError", "list index out of range", None)]
    ELSE LET result == holder[1] IN
         IF IsException(result) THEN [how |-> "raise", val |-> result, rid |-> rid]
         ELSE IF IsCursor(result)
              THEN [how |-> "return", rid |-> rid,
                    val |-> Value("MemoryCursorWrapper", result.msg, result.req)]
              ELSE [how |-> "return", val |-> result, rid |-> rid]

\* the confined call ends in the caller's thread; a MemPool under construction
\* goes on with mempool.con = <the new wrapper> and the locked re-check
Read(t) ==
    /\ pc[t] = "read"
    /\ LET out == CallOutcome(result_holder[frame[t].rid], frame[t].rid)
           f == frame[t]
       IN  /\ ret' = [ret EXCEPT ![t] = out]
           /\ IF f.op \in {"init", "init2"} /\ out.how = "return"
              THEN /\ poolCon' = [poolCon EXCEPT ![f.pool] = f.w]
                   /\ pc' = [pc EXCEPT ![t] = IF f.op = "init" THEN "lock" ELSE "unlock"]
                   /\ UNCHANGED frame
              ELSE /\ pc' = [pc EXCEPT ![t] = IF f.op = "init2" THEN "unlock" ELSE "idle"]
                   /\ frame' = [frame EXCEPT ![t] = IF f.op = "init2" THEN f ELSE NoFrame]
                   /\ UNCHANGED poolCon
    /\ UNCHANGED <<mem_queue, result_holder, lock, mem_connect_lock, built,
                   obj, cons, wpc, x, wresult, running, execLog, signalled,
                   connRet, torn, putLog, rollbackOps, raised>>
    /\ UNCHANGED poolVars
    /\ UNCHANGED proxyVars

\* ------------------------------------------------------------ MemPool
\* _get_pool(':memory:') returns MemPool(); MemPool.__init__ starts with
\* mempool.con = MemoryConnectionWrapper(), whose __init__ is a confined call
GetPool(t) ==
    /\ pc[t] = "idle"
    /\ Len(putLog) < MaxCalls
    /\ Len(poolCon) < MaxPools
    /\ poolCon' = Append(poolCon, None)
    /\ connRet' = Append(connRet, {})
    /\ obj' = Append(obj, None)
    /\ Put(t, "__init__", Len(obj) + 1, "", "init", Len(poolCon) + 1)
    /\ UNCHANGED <<lock, mem_connect_lock, built, cons, wpc, x, wresult,
                   running, execLog, signalled, torn, rollbackOps, raised>>
    /\ UNCHANGED poolVars
    /\ UNCHANGED proxyVars

\* mem_connect_lock.acquire()
MpLock(t) ==
    /\ pc[t] = "lock"
    /\ ~mem_connect_lock
    /\ mem_connect_lock' = TRUE
    /\ pc' = [pc EXCEPT ![t] = "locked"]
    /\ UNCHANGED <<mem_queue, result_holder, lock, frame, ret, built, poolCon, obj, cons, wpc, x, wresult, running, execLog, signalled,
                   connRet, torn, rollbackOps, raised, putLog>>
    /\ UNCHANGED poolVars
    /\ UNCHANGED proxyVars

\* if mempool.con is None: mempool.con = MemoryConnectionWrapper()
MpCheck(t) ==
    /\ pc[t] = "locked"
    /\ IF poolCon[frame[t].pool] = None
       THEN /\ obj' = Append(obj, None)
            /\ Put(t, "__init__", Len(obj) + 1, "", "init2", frame[t].pool)
       ELSE /\ pc' = [pc EXCEPT ![t] = "unlock"]
            /\ UNCHANGED <<obj, result_holder, mem_queue, putLog, frame, ret>>
    /\ UNCHANGED <<lock, mem_connect_lock, built, poolCon, cons, wpc, x,
                   wresult, running, execLog, signalled, connRet, torn, rollbackOps, raised>>
    /\ UNCHANGED poolVars
    /\ UNCHANGED proxyVars

\* finally: mem_connect_lock.release(); the constructed MemPool becomes a
\* provider.pool, which any thread may use, unless the constructor raised
MpUnlock(t) ==
    /\ pc[t] = "unlock"
    /\ mem_connect_lock' = FALSE
    /\ built' = IF ret[t].how = "raise" THEN built ELSE built \cup {frame[t].pool}
    /\ frame' = [frame EXCEPT ![t] = NoFrame]
    /\ pc' = [pc EXCEPT ![t] = "idle"]
    /\ UNCHANGED <<mem_queue, result_holder, lock, ret, poolCon, obj,
                   cons, wpc, x, wresult, running, execLog, signalled, connRet, torn,
                   rollbackOps, raised, putLog>>
    /\ UNCHANGED poolVars
    /\ UNCHANGED proxyVars

\* MemPool.connect on pool p in thread t: return mempool.con
MemConnect(t, p) ==
    /\ pc[t] = "idle"
    /\ p \in built
    /\ connRet' = [connRet EXCEPT ![p] = @ \cup {poolCon[p]}]
    /\ UNCHANGED <<mem_queue, result_holder, lock, mem_connect_lock, pc, frame, ret,
                   built, poolCon, obj, cons, wpc, x, wresult, running, execLog,
                   signalled, torn, rollbackOps, raised, putLog>>
    /\ UNCHANGED poolVars
    /\ UNCHANGED proxyVars

\* the connection proxies that connect() calls have handed out
Handles == UNION SeqRange(connRet)

\* MemPool.release and MemPool.drop have the same body, called on pool p with
\* a connection con some connect() returned: assert con is mempool.con; con.rollback()
MemRollback(t, p, con, op) ==
    /\ pc[t] = "idle"
    /\ p \in built
    /\ con \in Handles
    /\ Len(putLog) < MaxCalls
    /\ IF con = poolCon[p]
       THEN /\ Put(t, "rollback", con, "", op, p)
            /\ rollbackOps' = Append(rollbackOps, op)
       ELSE /\ ret' = [ret EXCEPT ![t] =
                         [how |-> "raise", val |-> Value("AssertionError", "", None),
                          rid |-> None]]
            /\ UNCHANGED <<result_holder, mem_queue, putLog, frame, pc, rollbackOps>>
    /\ UNCHANGED <<lock, mem_connect_lock, built, poolCon, obj, cons, wpc, x,
                   wresult, running, execLog, signalled, connRet, torn, raised>>
    /\ UNCHANGED poolVars
    /\ UNCHANGED proxyVars

MemRelease(t, p, con) == MemRollback(t, p, con, "release")

MemDrop(t, p, con) == MemRollback(t, p, con, "drop")

\* __del__ with the test the other way round: if con is not None: con.close()
MemDel_CloseIfPresent(t, p) ==
    /\ pc[t] = "idle"
    /\ p \in built
    /\ p \notin torn
    /\ poolCon[p] # None
    /\ Len(putLog) < MaxCalls
    /\ torn' = torn \cup {p}
    /\ Put(t, "close", poolCon[p], "", "del", p)
    /\ UNCHANGED <<lock, mem_connect_lock, built, poolCon, obj, cons, wpc, x,
                   wresult, running, execLog, signalled, connRet, rollbackOps, raised>>
    /\ UNCHANGED poolVars
    /\ UNCHANGED proxyVars

\* MemPool.__del__ of pool p, run in thread t:
\* con = mempool.con; if con is None: con.close()
\* (None has no close: the AttributeError of a __del__ is printed and ignored)
MemDel(t, p) ==
    /\ pc[t] = "idle"
    /\ p \in built
    /\ p \notin torn
    /\ torn' = torn \cup {p}
    /\ UNCHANGED <<mem_queue, result_holder, lock, mem_connect_lock, pc, frame, ret,
                   built, poolCon, obj, cons, wpc, x, wresult, running,
                   execLog, signalled, connRet, rollbackOps, raised, putLog>>
    /\ UNCHANGED poolVars
    /\ UNCHANGED proxyVars

\* execute calling the underlying connection in the calling thread
Execute_Direct(t, con, sql) ==
    /\ pc[t] = "idle"
    /\ con \in Handles
    /\ obj[con] # None
    /\ cons' = [cons EXCEPT ![obj[con]].dirty = TRUE]
    /\ lastUse' = Use("execute", "connection", "", FALSE, TRUE, "return")
    /\ UNCHANGED <<mem_queue, result_holder, lock, mem_connect_lock, pc, frame, ret,
                   built, poolCon, obj, wpc, x, wresult, running, execLog, signalled,
                   connRet, torn, rollbackOps, raised, putLog, inst>>
    /\ UNCHANGED poolVars

\* a forwarded method of the connection proxy: con.execute(sql)
Execute(t, con, sql) ==
    /\ pc[t] = "idle"
    /\ con \in Handles
    /\ Len(putLog) < MaxCalls
    /\ Put(t, "execute", con, sql, "exec", None)
    /\ UNCHANGED <<lock, mem_connect_lock, built, poolCon, obj, cons, wpc,
                   x, wresult, running, execLog, signalled, connRet, torn, rollbackOps,
                   raised>>
    /\ UNCHANGED poolVars
    /\ UNCHANGED proxyVars

\* ------------------------------------------- the proxies' other operations
\* the attribute names and cursor factories callers use
ConNames == {"isolation_level", "set_process_handler"}

CurNames == {"rowcount"}

Factories == {"Cursor", "returns an exception"}

\* the cursor proxies callers hold: the requests whose raw cursor result was
\* wrapped and returned by in_dedicated_thread
CurHandles ==
    {r \in 1..Len(result_holder) :
        /\ Len(result_holder[r]) = 1
        /\ IsCursor(result_holder[r][1])
        /\ r \in signalled
        /\ \A t \in Threads : frame[t].rid # r}

\* the proxies of a class that callers hold
Proxies(cls) == IF cls = "cursor" THEN CurHandles ELSE Handles

\* proxy.name read in thread t: a property of the class runs its getter (a
\* confined call); otherwise the instance attribute, then the class attribute,
\* then AttributeError
GetAttr(t, cls, w, name) ==
    /\ pc[t] = "idle"
    /\ w \in Proxies(cls)
    /\ LET e == ClassDict(cls)[name] IN
       IF e.kind = "property"
       THEN /\ Len(putLog) < MaxOps
            /\ Put(t, "getter", w, e.attr, IF cls = "cursor" THEN "cursor" ELSE "prop", None)
            /\ lastUse' = Use("get", cls, name, TRUE, FALSE, "call")
       ELSE /\ lastUse' = Use("get", cls, name, FALSE, FALSE,
                              IF <<cls, w, name>> \in inst THEN "instance attribute"
                              ELSE IF e.kind # "absent" THEN "bound method"
                              ELSE "AttributeError")
            /\ UNCHANGED <<result_holder, mem_queue, putLog, frame, pc, ret>>
    /\ UNCHANGED <<lock, mem_connect_lock, built, poolCon, obj, cons, wpc, x, wresult,
                   running, execLog, signalled, connRet, torn, rollbackOps, raised,
                   inst>>
    /\ UNCHANGED poolVars

\* proxy.name = value in thread t: a property of the class runs its setter (a
\* confined call); otherwise the value becomes an instance attribute of the proxy
SetAttr(t, cls, w, name) ==
    /\ pc[t] = "idle"
    /\ w \in Proxies(cls)
    /\ LET e == ClassDict(cls)[name] IN
       IF e.kind = "property"
       THEN /\ Len(putLog) < MaxOps
            /\ Put(t, "setter", w, e.attr, IF cls = "cursor" THEN "cursor" ELSE "prop", None)
            /\ lastUse' = Use("set", cls, name, TRUE, FALSE, "call")
            /\ UNCHANGED inst
       ELSE /\ inst' = inst \cup {<<cls, w, name>>}
            /\ lastUse' = Use("set", cls, name, FALSE, FALSE, "instance attribute")
            /\ UNCHANGED <<result_holder, mem_queue, putLog, frame, pc, ret>>
    /\ UNCHANGED <<lock, mem_connect_lock, built, poolCon, obj, cons, wpc, x, wresult,
                   running, execLog, signalled, connRet, torn, rollbackOps, raised>>
    /\ UNCHANGED poolVars

\* a forwarded method of a cursor proxy: cur.fetchone()
CursorCall(t, cw) ==
    /\ pc[t] = "idle"
    /\ cw \in CurHandles
    /\ Len(putLog) < MaxOps
    /\ Put(t, "fetchone", cw, "", "cursor", None)
    /\ UNCHANGED <<lock, mem_connect_lock, built, poolCon, obj, cons, wpc,
                   x, wresult, running, execLog, signalled, connRet, torn, rollbackOps,
                   raised>>
    /\ UNCHANGED poolVars
    /\ UNCHANGED proxyVars

\* the forwarded method cursor of the connection proxy: con.cursor(factory)
ConCursor(t, con, factory) ==
    /\ pc[t] = "idle"
    /\ con \in Handles
    /\ Len(putLog) < MaxOps
    /\ Put(t, "cursor", con, factory, "exec", None)
    /\ UNCHANGED <<lock, mem_connect_lock, built, poolCon, obj, cons, wpc,
                   x, wresult, running, execLog, signalled, connRet, torn, rollbackOps,
                   raised>>
    /\ UNCHANGED poolVars
    /\ UNCHANGED proxyVars

\* the underlying connection a request works on: wrapper.obj of a connection
\* proxy, or the connection of the raw cursor a cursor proxy wraps (a cursor is
\* named by the request that created it)
ConOf(req) ==
    IF req.cls = "cursor" THEN obj[putLog[req.w].w] ELSE obj[req.w]

\* the request the worker is executing works on connection c
Busy(c) == \E r \in running : ConOf(putLog[r]) = c /\ putLog[r].func # "__init__"

\* interrupt made a forwarder like the other methods
Interrupt_Confined(t, con) ==
    /\ pc[t] = "idle"
    /\ con \in Handles
    /\ Len(putLog) < MaxOps
    /\ Put(t, "interrupt", con, "", "exec", None)
    /\ lastUse' = Use("interrupt", "connection", "", TRUE, FALSE, "call")
    /\ UNCHANGED <<lock, mem_connect_lock, built, poolCon, obj, cons, wpc,
                   x, wresult, running, execLog, signalled, connRet, torn, rollbackOps,
                   raised, inst>>
    /\ UNCHANGED poolVars

\* MemoryConnectionWrapper.interrupt in thread t: wrapper.obj.interrupt(), run
\* in the calling thread; sqlite3_interrupt aborts the operation in progress
Interrupt(t, con) ==
    /\ pc[t] = "idle"
    /\ con \in Handles
    /\ IF obj[con] = None
       THEN /\ lastUse' = Use("interrupt", "connection", "", FALSE, FALSE, "AttributeError")
            /\ UNCHANGED cons
       ELSE IF cons[obj[con]].closed
       THEN /\ lastUse' = Use("interrupt", "connection", "", FALSE, TRUE, "ProgrammingError")
            /\ UNCHANGED cons
       ELSE /\ lastUse' = Use("interrupt", "connection", "", FALSE, TRUE, "return")
            /\ cons' = IF Busy(obj[con])
                       THEN [cons EXCEPT ![obj[con]].interrupted = TRUE]
                       ELSE cons
    /\ UNCHANGED <<mem_queue, result_holder, lock, mem_connect_lock, pc, frame, ret,
                   built, poolCon, obj, wpc, x, wresult, running, execLog, signalled,
                   connRet, torn, rollbackOps, raised, putLog, inst>>
    /\ UNCHANGED poolVars

\* ------------------------------------------------ SqliteMemoryDbThread
NewCon == [dirty |-> FALSE, closed |-> FALSE, interrupted |-> FALSE]

\* BaseException subclasses that do not derive from Exception
EscapingTypes == {"SystemExit"}

\* what func(*args, **keyargs) does on the worker: the value it returns or the
\* exception it raises (raises = TRUE), and the wrappers and connections afterwards
Apply(req) ==
    LET return(v) == [result |-> v, raises |-> FALSE, cons |-> cons, obj |-> obj]
        raise(v) == [result |-> v, raises |-> TRUE, cons |-> cons, obj |-> obj]
    IN
    IF req.func = "__init__"
    THEN \* con = sqlite.connect(':memory:'); _init_connection(con); wrapper.obj = con
         [result |-> Value("NoneType", "", req.rid), raises |-> FALSE,
          cons |-> Append(cons, NewCon),
          obj |-> [obj EXCEPT ![req.w] = Len(cons) + 1]]
    ELSE \* method = getattr(wrapper.obj, method_name); return method(*args)
         IF ConOf(req) = None
         THEN raise(Value("AttributeError", "obj", req.rid))
         ELSE LET c == ConOf(req) IN
              IF cons[c].closed
              THEN raise(Value("ProgrammingError", "closed", req.rid))
              ELSE IF req.func = "getter"
              THEN \* return getattr(wrapper.obj, attr)
                   return(Value("attribute", req.arg, req.rid))
              ELSE IF req.func = "setter"
              THEN \* setattr(wrapper.obj, attr, value)
                   return(Value("NoneType", "", req.rid))
              ELSE IF cons[c].interrupted
              THEN \* sqlite3_interrupt aborted the operation
                   [result |-> Value("OperationalError", "interrupted", req.rid),
                    raises |-> TRUE,
                    cons |-> [cons EXCEPT ![c].interrupted = FALSE],
                    obj |-> obj]
              ELSE IF req.func = "rollback"
              THEN [result |-> Value("NoneType", "", req.rid), raises |-> FALSE,
                    cons |-> [cons EXCEPT ![c].dirty = FALSE],
                    obj |-> obj]
              ELSE IF req.func = "close"
              THEN [result |-> Value("NoneType", "", req.rid), raises |-> FALSE,
                    cons |-> [cons EXCEPT ![c].closed = TRUE, ![c].dirty = FALSE],
                    obj |-> obj]
              ELSE IF req.func = "cursor"
              THEN \* con.cursor(factory) returns what factory(con) returns
                   IF req.arg = "Cursor"
                   THEN return(Value("Cursor", "", req.rid))
                   ELSE return(Value("ValueError", "returned", req.rid))
              ELSE IF req.func = "fetchone"
              THEN return(Value("tuple", "row", req.rid))
              ELSE IF req.arg = "ok"
              THEN [result |-> Value("Cursor", "", req.rid), raises |-> FALSE,
                    cons |-> [cons EXCEPT ![c].dirty = TRUE],
                    obj |-> obj]
              ELSE IF req.arg = "syntax"
              THEN raise(Value("OperationalError", req.arg, req.rid))
              ELSE IF req.arg = "exit"
              THEN \* executemany(sql, params) whose params iterator calls sys.exit()
                   raise(Value("SystemExit", req.arg, req.rid))
              ELSE raise(Value("IntegrityError", req.arg, req.rid))

\* a worker that takes the next request while func is still executing
WorkerGet_NoWait ==
    /\ wpc \in {"get", "call"}
    /\ mem_queue # <<>>
    /\ x' = Head(mem_queue)
    /\ mem_queue' = Tail(mem_queue)
    /\ running' = running \cup {Head(mem_queue).rid}
    /\ execLog' = Append(execLog, Head(mem_queue).rid)
    /\ wpc' = "call"
    /\ UNCHANGED <<result_holder, lock, mem_connect_lock, pc, frame, ret,
                   built, poolCon, obj, cons, wresult, signalled, connRet,
                   torn, rollbackOps, raised, putLog>>
    /\ UNCHANGED poolVars
    /\ UNCHANGED proxyVars

\* the queue's get taking the newest request instead of the oldest
QueueGet_Lifo(q) == [item |-> q[Len(q)], rest |-> SubSeq(q, 1, Len(q) - 1)]

\* Queue.get(): the oldest request, and the queue without it
QueueGet(q) == [item |-> Head(q), rest |-> Tail(q)]

\* x = mem_queue.get(); lock, func, args, keyargs, result_holder = x; func starts.
\* Nothing in the module puts the None sentinel, so x is always a request.
WorkerGet ==
    /\ wpc = "get"
    /\ mem_queue # <<>>
    /\ x' = QueueGet(mem_queue).item
    /\ mem_queue' = QueueGet(mem_queue).rest
    /\ running' = running \cup {QueueGet(mem_queue).item.rid}
    /\ execLog' = Append(execLog, QueueGet(mem_queue).item.rid)
    /\ wpc' = "call"
    /\ UNCHANGED <<result_holder, lock, mem_connect_lock, pc, frame, ret, built, poolCon, obj, cons, wresult, signalled, connRet,
                   torn, rollbackOps, raised, putLog>>
    /\ UNCHANGED poolVars
    /\ UNCHANGED proxyVars

\* try: result = func(*args, **keyargs) / except Exception, e: func ends.
\* An exception that is not an Exception passes the except clause and ends run().
WorkerCall ==
    /\ wpc = "call"
    /\ wresult' = IF Apply(x).raises /\ Apply(x).result.type \in EscapingTypes
                  THEN wresult ELSE Apply(x).result
    /\ cons' = Apply(x).cons
    /\ obj' = Apply(x).obj
    /\ running' = running \ {x.rid}
    /\ raised' = IF Apply(x).raises THEN raised \cup {Apply(x).result} ELSE raised
    /\ wpc' = IF Apply(x).raises /\ Apply(x).result.type \in EscapingTypes
              THEN "dead" ELSE "store"
    /\ UNCHANGED <<mem_queue, result_holder, lock, mem_connect_lock, pc, frame, ret,
                   built, poolCon, x, execLog, signalled, connRet,
                   torn, rollbackOps, putLog>>
    /\ UNCHANGED poolVars
    /\ UNCHANGED proxyVars

\* result_holder.append(e) or result_holder.append(result)
WorkerStore ==
    /\ wpc = "store"
    /\ result_holder' = [result_holder EXCEPT ![x.rid] = Append(@, wresult)]
    /\ wpc' = "release"
    /\ UNCHANGED <<mem_queue, lock, mem_connect_lock, pc, frame, ret, built,
                   poolCon, obj, cons, x, wresult, running, execLog,
                   signalled, connRet, torn, rollbackOps, raised, putLog>>
    /\ UNCHANGED poolVars
    /\ UNCHANGED proxyVars

\* if lock is not None: lock.release(); releasing a lock that is not held
\* raises thread.error out of run()
WorkerRelease ==
    /\ wpc = "release"
    /\ IF lock[x.lock]
       THEN /\ lock' = [lock EXCEPT ![x.lock] = FALSE]
            /\ signalled' = signalled \cup {x.rid}
            /\ wpc' = "get"
       ELSE /\ wpc' = "crashed"
            /\ UNCHANGED <<lock, signalled>>
    /\ UNCHANGED <<mem_queue, result_holder, mem_connect_lock, pc, frame, ret, built, poolCon, obj, cons, x, wresult, running, execLog,
                   connRet, torn, rollbackOps, raised, putLog>>
    /\ UNCHANGED poolVars
    /\ UNCHANGED proxyVars

\* ------------------------------------------------------- Pool (file)
NoPret == [t |-> None, op |-> "none", how |-> "none", val |-> None, err |-> "",
           preCon |-> None, preExists |-> FALSE, opened |-> FALSE,
           rbFailed |-> FALSE, repeat |-> FALSE]

PoolInit ==
    /\ pool_made = FALSE
    /\ create_db = FALSE
    /\ fileExists = FALSE
    /\ pool_con = [t \in Threads |-> None]
    /\ fcons = <<>>
    /\ hand = [t \in Threads |-> None]
    /\ pret = NoPret
    /\ cleanDue = [t \in Threads |-> FALSE]

\* _get_pool(filename, create_db): return Pool(filename, create_db);
\* Pool.__init__ runs in each thread with these arguments and sets pool.con = None
NewPool(c) ==
    /\ ~pool_made
    /\ pool_made' = TRUE
    /\ create_db' = c
    /\ UNCHANGED <<fileExists, pool_con, fcons, hand, pret, cleanDue>>
    /\ UNCHANGED bridgeVars

\* the environment creates the database file
EnvCreateFile ==
    /\ ~fileExists
    /\ fileExists' = TRUE
    /\ UNCHANGED <<pool_made, create_db, pool_con, fcons, hand, pret, cleanDue>>
    /\ UNCHANGED bridgeVars

\* Pool.connect with a connect that never looks for the file
ConnectDo_NoCheck(t, initFails) ==
    LET con == pool_con[t]
        new == Len(fcons) + 1
    IN
    IF con # None
    THEN [con |-> con, fcons |-> fcons, exists |-> fileExists,
          how |-> "return", val |-> con, err |-> ""]
    ELSE [con |-> new, exists |-> TRUE,
          fcons |-> Append(fcons, [owner |-> t, closed |-> FALSE, dirty |-> FALSE,
                                   inited |-> ~initFails]),
          how |-> IF initFails THEN "raise" ELSE "return",
          val |-> IF initFails THEN None ELSE new,
          err |-> IF initFails THEN "OperationalError" ELSE ""]

\* Pool.connect that opens a new connection although one is stored
ConnectDo_AlwaysOpen(t, initFails) ==
    LET new == Len(fcons) + 1 IN
    IF ~create_db /\ ~fileExists
    THEN [con |-> pool_con[t], fcons |-> fcons, exists |-> fileExists,
          how |-> "raise", val |-> None, err |-> "IOError"]
    ELSE [con |-> new, exists |-> TRUE,
          fcons |-> Append(fcons, [owner |-> t, closed |-> FALSE, dirty |-> FALSE,
                                   inited |-> ~initFails]),
          how |-> IF initFails THEN "raise" ELSE "return",
          val |-> IF initFails THEN None ELSE new,
          err |-> IF initFails THEN "OperationalError" ELSE ""]

\* Pool.connect of a Pool that is one object for all threads: pool.con is
\* whatever any thread stored
ConnectDo_Shared(t, initFails) ==
    LET stored == {pool_con[u] : u \in Threads} \ {None}
        con == IF stored = {} THEN None ELSE CHOOSE c \in stored : TRUE
        new == Len(fcons) + 1
    IN
    IF con # None
    THEN [con |-> con, fcons |-> fcons, exists |-> fileExists,
          how |-> "return", val |-> con, err |-> ""]
    ELSE IF ~create_db /\ ~fileExists
    THEN [con |-> con, fcons |-> fcons, exists |-> fileExists,
          how |-> "raise", val |-> None, err |-> "IOError"]
    ELSE [con |-> new, exists |-> TRUE,
          fcons |-> Append(fcons, [owner |-> t, closed |-> FALSE, dirty |-> FALSE,
                                   inited |-> ~initFails]),
          how |-> IF initFails THEN "raise" ELSE "return",
          val |-> IF initFails THEN None ELSE new,
          err |-> IF initFails THEN "OperationalError" ELSE ""]

\* Pool.connect in thread t: pool.con, the physical connections and the file
\* afterwards, and what the call returns or raises;
\* initFails: create_function raises in _init_connection
ConnectDo(t, initFails) ==
    LET con == pool_con[t]
        new == Len(fcons) + 1
    IN
    IF con # None
    THEN \* if con is not None: return con
         [con |-> con, fcons |-> fcons, exists |-> fileExists,
          how |-> "return", val |-> con, err |-> ""]
    ELSE IF ~create_db /\ ~fileExists
    THEN \* throw(IOError, "Database file is not found: %r" % filename)
         [con |-> con, fcons |-> fcons, exists |-> fileExists,
          how |-> "raise", val |-> None, err |-> "IOError"]
    ELSE \* pool.con = con = sqlite.connect(filename); _init_connection(con); return con
         [con |-> new, exists |-> TRUE,
          fcons |-> Append(fcons, [owner |-> t, closed |-> FALSE, dirty |-> FALSE,
                                   inited |-> ~initFails]),
          how |-> IF initFails THEN "raise" ELSE "return",
          val |-> IF initFails THEN None ELSE new,
          err |-> IF initFails THEN "OperationalError" ELSE ""]

PoolConnect(t, initFails) ==
    /\ pool_made
    /\ LET r == ConnectDo(t, initFails) IN
       /\ Len(r.fcons) <= MaxCons
       \* _init_connection runs only on a newly opened connection
       /\ initFails => Len(r.fcons) > Len(fcons)
       /\ pool_con' = [pool_con EXCEPT ![t] = r.con]
       /\ fcons' = r.fcons
       /\ fileExists' = r.exists
       /\ hand' = [hand EXCEPT ![t] = IF r.how = "return" THEN r.val ELSE @]
       /\ pret' = [t |-> t, op |-> "connect", how |-> r.how, val |-> r.val,
                   err |-> r.err, preCon |-> pool_con[t], preExists |-> fileExists,
                   opened |-> Len(r.fcons) > Len(fcons), rbFailed |-> FALSE,
                   repeat |-> (pret.t = t /\ pret.op = "connect" /\ pret.err = "IOError")]
    /\ UNCHANGED <<pool_made, create_db, cleanDue>>
    /\ UNCHANGED bridgeVars

\* the thread writes through the connection it holds: con.execute("insert ...")
PoolWrite(t) ==
    /\ hand[t] # None
    /\ ~fcons[hand[t]].closed
    /\ fcons' = [fcons EXCEPT ![hand[t]].dirty = TRUE]
    /\ cleanDue' = [cleanDue EXCEPT ![t] = FALSE]
    /\ UNCHANGED <<pool_made, create_db, fileExists, pool_con, hand, pret>>
    /\ UNCHANGED bridgeVars

\* the thread commits: con.commit()
PoolCommit(t) ==
    /\ hand[t] # None
    /\ ~fcons[hand[t]].closed
    /\ fcons[hand[t]].dirty
    /\ fcons' = [fcons EXCEPT ![hand[t]].dirty = FALSE]
    /\ UNCHANGED <<pool_made, create_db, fileExists, pool_con, hand, pret, cleanDue>>
    /\ UNCHANGED bridgeVars

\* Pool.release(con) in thread t: the physical connections afterwards and what
\* the call returns or raises; rbFails: con.rollback() raises OperationalError
ReleaseDo(t, con, rbFails) ==
    IF con # pool_con[t]
    THEN \* assert con is pool.con
         [fcons |-> fcons, how |-> "raise", err |-> "AssertionError",
          rbFailed |-> FALSE, passed |-> FALSE]
    ELSE IF rbFails \/ fcons[con].closed
    THEN \* except: pool.close(con) -- Pool defines no close, so the handler
         \* raises AttributeError and its "raise" is never reached
         [fcons |-> fcons, how |-> "raise", err |-> "AttributeError",
          rbFailed |-> TRUE, passed |-> TRUE]
    ELSE \* con.rollback()
         [fcons |-> [fcons EXCEPT ![con].dirty = FALSE], how |-> "return", err |-> "",
          rbFailed |-> FALSE, passed |-> TRUE]

PoolRelease(t, rbFails) ==
    /\ pool_made
    /\ hand[t] # None
    \* con.rollback() runs only when the assertion passed
    /\ rbFails => hand[t] = pool_con[t]
    /\ LET r == ReleaseDo(t, hand[t], rbFails) IN
       /\ fcons' = r.fcons
       /\ cleanDue' = [cleanDue EXCEPT ![t] = IF r.passed THEN TRUE ELSE @]
       /\ pret' = [t |-> t, op |-> "release", how |-> r.how, val |-> hand[t],
                   err |-> r.err, preCon |-> pool_con[t], preExists |-> fileExists,
                   opened |-> FALSE, rbFailed |-> r.rbFailed, repeat |-> FALSE]
    /\ UNCHANGED <<pool_made, create_db, fileExists, pool_con, hand>>
    /\ UNCHANGED bridgeVars

\* Pool.drop that closes the connection but keeps pool.con
DropDo_KeepRef(t, con) ==
    IF con # pool_con[t]
    THEN [con |-> pool_con[t], fcons |-> fcons, how |-> "raise", err |-> "AssertionError"]
    ELSE [con |-> pool_con[t],
          fcons |-> [fcons EXCEPT ![con].closed = TRUE, ![con].dirty = FALSE],
          how |-> "return", err |-> ""]

\* Pool.drop(con) in thread t: pool.con and the physical connections afterwards
DropDo(t, con) ==
    IF con # pool_con[t]
    THEN \* assert con is pool.con
         [con |-> pool_con[t], fcons |-> fcons, how |-> "raise", err |-> "AssertionError"]
    ELSE \* pool.con = None; con.close()
         [con |-> None,
          fcons |-> [fcons EXCEPT ![con].closed = TRUE, ![con].dirty = FALSE],
          how |-> "return", err |-> ""]

PoolDrop(t) ==
    /\ pool_made
    /\ hand[t] # None
    /\ LET r == DropDo(t, hand[t]) IN
       /\ pool_con' = [pool_con EXCEPT ![t] = r.con]
       /\ fcons' = r.fcons
       /\ pret' = [t |-> t, op |-> "drop", how |-> r.how, val |-> hand[t],
                   err |-> r.err, preCon |-> pool_con[t], preExists |-> fileExists,
                   opened |-> FALSE, rbFailed |-> FALSE, repeat |-> FALSE]
    /\ UNCHANGED <<pool_made, create_db, fileExists, hand, cleanDue>>
    /\ UNCHANGED bridgeVars

\* ------------------------------------------------------ specifications
vars == <<bridgeVars, poolVars>>

Init == BridgeInit /\ PoolInit

Next ==
    \/ \E t \in Threads : GetPool(t)
    \/ \E t \in Threads : MpLock(t)
    \/ \E t \in Threads : MpCheck(t)
    \/ \E t \in Threads : MpUnlock(t)
    \/ \E t \in Threads, p \in 1..MaxPools : MemConnect(t, p)
    \/ \E t \in Threads, p \in 1..MaxPools, con \in Handles : MemRelease(t, p, con)
    \/ \E t \in Threads, p \in 1..MaxPools, con \in Handles : MemDrop(t, p, con)
    \/ \E t \in Threads, p \in 1..MaxPools : MemDel(t, p)
    \/ \E t \in Threads, con \in Handles, sql \in Sqls : Execute(t, con, sql)
    \/ \E t \in Threads : Acquire(t)
    \/ \E t \in Threads : Read(t)
    \/ WorkerGet
    \/ WorkerCall
    \/ WorkerStore
    \/ WorkerRelease

\* the confinement bridge and the shared in-memory pool
Spec == Init /\ [][Next]_vars

PoolNext ==
    \/ \E c \in BOOLEAN : NewPool(c)
    \/ EnvCreateFile
    \/ \E t \in Threads, initFails \in BOOLEAN : PoolConnect(t, initFails)
    \/ \E t \in Threads : PoolWrite(t)
    \/ \E t \in Threads : PoolCommit(t)
    \/ \E t \in Threads, rbFails \in BOOLEAN : PoolRelease(t, rbFails)
    \/ \E t \in Threads : PoolDrop(t)

\* the per-thread file Pool
PoolSpec == Init /\ [][PoolNext]_vars

ProxyNext ==
    \/ \E t \in Threads : GetPool(t)
    \/ \E t \in Threads : MpLock(t)
    \/ \E t \in Threads : MpCheck(t)
    \/ \E t \in Threads : MpUnlock(t)
    \/ \E t \in Threads, p \in 1..MaxPools : MemConnect(t, p)
    \/ \E t \in Threads, con \in Handles : Execute(t, con, "ok")
    \/ \E t \in Threads, cw \in CurHandles : CursorCall(t, cw)
    \/ \E t \in Threads, cw \in CurHandles, n \in CurNames : GetAttr(t, "cursor", cw, n)
    \/ \E t \in Threads, con \in Handles : Interrupt(t, con)
    \/ \E t \in Threads : Acquire(t)
    \/ \E t \in Threads : Read(t)
    \/ WorkerGet
    \/ WorkerCall
    \/ WorkerStore
    \/ WorkerRelease

\* the connection and cursor proxies: forwarded calls, cursors, interrupt
ProxySpec == Init /\ [][ProxyNext]_vars

AttrNext ==
    \/ \E t \in Threads : GetPool(t)
    \/ \E t \in Threads : MpLock(t)
    \/ \E t \in Threads : MpCheck(t)
    \/ \E t \in Threads : MpUnlock(t)
    \/ \E t \in Threads, p \in 1..MaxPools : MemConnect(t, p)
    \/ \E t \in Threads, con \in Handles, f \in Factories : ConCursor(t, con, f)
    \/ \E t \in Threads, con \in Handles, n \in ConNames : GetAttr(t, "connection", con, n)
    \/ \E t \in Threads, con \in Handles, n \in ConNames : SetAttr(t, "connection", con, n)
    \/ \E t \in Threads, cw \in CurHandles, n \in CurNames : GetAttr(t, "cursor", cw, n)
    \/ \E t \in Threads, cw \in CurHandles, n \in CurNames : SetAttr(t, "cursor", cw, n)
    \/ \E t \in Threads : Acquire(t)
    \/ \E t \in Threads : Read(t)
    \/ WorkerGet
    \/ WorkerCall
    \/ WorkerStore
    \/ WorkerRelease

\* the proxies' attributes and the values confined calls return
AttrSpec == Init /\ [][AttrNext]_vars

\* the statements callers execute when the worker's survival is at stake
LiveSqls == {"ok", "syntax", "exit"}

LiveNext ==
    \/ \E t \in Threads : GetPool(t)
    \/ \E t \in Threads : MpLock(t)
    \/ \E t \in Threads : MpCheck(t)
    \/ \E t \in Threads : MpUnlock(t)
    \/ \E t \in Threads, p \in 1..MaxPools : MemConnect(t, p)
    \/ \E t \in Threads, con \in Handles, sql \in LiveSqls : Execute(t, con, sql)
    \/ \E t \in Threads : Acquire(t)
    \/ \E t \in Threads : Read(t)
    \/ WorkerGet
    \/ WorkerCall
    \/ WorkerStore
    \/ WorkerRelease

\* the worker thread is scheduled while it can take a step, and a caller goes
\* on once its lock.acquire() can return
Fairness ==
    /\ WF_vars(WorkerGet)
    /\ WF_vars(WorkerCall)
    /\ WF_vars(WorkerStore)
    /\ WF_vars(WorkerRelease)
    /\ \A t \in Threads : WF_vars(Acquire(t)) /\ WF_vars(Read(t))

\* the bridge under fair scheduling, with operations that raise
LiveSpec == Init /\ [][LiveNext]_vars /\ Fairness

\* ------------------------------------------------------------- claims
Started == SeqRange(execLog)

Stored == {r \in 1..Len(result_holder) : Len(result_holder[r]) > 0}

\* C1: the worker executes at most one confined operation at a time: never are
\* two requests in progress on the resource, a request in progress is the one
\* the worker holds, and every request the worker started before its latest one
\* has its result stored.
C1_OneAtATime ==
    /\ Cardinality(running) <= 1
    /\ \A r \in running : wpc = "call" /\ x.rid = r
    /\ \A i \in 1..(Len(execLog) - 1) : execLog[i] \in Stored /\ execLog[i] \notin running
    /\ wpc = "get" => Started \subseteq Stored

C1_Witness ==
    /\ running # {}
    /\ mem_queue # <<>>
    /\ \E t \in Threads : pc[t] = "acquire" /\ frame[t].rid \in running

\* C2: requests are executed exactly in the order they were put on mem_queue:
\* the i-th request started is the i-th request put, the queue holds the
\* requests not yet started in put order, and when a request has started the
\* callers of all earlier requests have been signalled.
C2_FifoOrder ==
    /\ \A i \in 1..Len(execLog) : execLog[i] = i /\ putLog[i].rid = i
    /\ Len(mem_queue) = Len(putLog) - Len(execLog)
    /\ \A i \in 1..Len(mem_queue) : mem_queue[i] = putLog[Len(execLog) + i]
    /\ \A i \in 1..Len(execLog) : \A j \in 1..(i - 1) : j \in signalled

C2_Witness ==
    /\ Len(execLog) >= 2
    /\ putLog[1].lock # putLog[2].lock
    /\ 2 \in running
    /\ 1 \in signalled

C4_ReadAfterWrite ==
    /\ \A r \in 1..Len(result_holder) : Len(result_holder[r]) <= 1
    /\ \A t \in Threads : pc[t] = "read" =>
           LET r == frame[t].rid IN
           /\ Len(result_holder[r]) = 1
           /\ result_holder[r][1].req = r
           /\ putLog[r].lock = t
           /\ r \in signalled
           /\ lock[t]

C4_Witness ==
    \E t \in Threads :
        /\ pc[t] = "read"
        /\ \E r \in 1..(frame[t].rid - 1) : putLog[r].lock = t /\ r \in signalled

\* C5: exactly one underlying in-memory connection is ever constructed, and
\* every thread that connects through _get_pool(':memory:') gets the same proxy.
C5_SingleConnection ==
    /\ Len(cons) <= 1
    /\ Cardinality(Handles) <= 1

\* C6: for every MemPool, all connect() calls returned the one proxy the pool
\* still holds, whose underlying connection was created once and is not closed,
\* whatever release, drop and __del__ calls were made; each release or drop
\* put exactly one request, a rollback, on the queue and nothing else.
C6_MemPoolStable ==
    /\ \A p \in 1..Len(poolCon) :
           /\ Cardinality(connRet[p]) <= 1
           /\ connRet[p] # {} => connRet[p] = {poolCon[p]} /\ poolCon[p] # None
           /\ poolCon[p] # None =>
                  LET w == poolCon[p] IN
                  /\ obj[w] # None
                  /\ ~cons[obj[w]].closed
                  /\ Cardinality({i \in 1..Len(putLog) :
                                    putLog[i].func = "__init__" /\ putLog[i].w = w}) = 1
    /\ Cardinality({i \in 1..Len(putLog) : putLog[i].func = "rollback"}) = Len(rollbackOps)
    /\ \A i \in 1..Len(putLog) : putLog[i].func \in {"__init__", "rollback", "execute"}

C6_Witness ==
    \E p \in 1..Len(poolCon) :
        /\ p \in torn
        /\ rollbackOps # <<>>
        /\ putLog[Len(putLog)].func = "rollback" /\ putLog[Len(putLog)].w = poolCon[p]
        /\ Len(execLog) = Len(putLog) /\ wpc = "get"
        /\ connRet[p] # {}
        /\ \A t \in Threads : pc[t] = "idle"

\* the connections thread t dropped: only Pool.drop closes a connection
Dropped(t) == {c \in 1..Len(fcons) : fcons[c].owner = t /\ fcons[c].closed}

\* C7: when release(con) finds con.rollback() failing, the connection is
\* dropped (closed, pool.con None) and the rollback's own failure is raised.
C7_ReleaseDropsBroken ==
    \A t \in Threads :
        (pret.t = t /\ pret.op = "release" /\ pret.rbFailed) =>
            /\ fcons[pret.val].closed
            /\ pool_con[t] = None
            /\ pret.how = "raise" /\ pret.err = "OperationalError"

\* C8: a connect() that follows a release with no write in between returns a
\* connection without uncommitted changes, also when the rollback failed.
C8_CleanAfterRelease ==
    \A t \in Threads :
        (pret.t = t /\ pret.op = "connect" /\ pret.how = "return" /\ cleanDue[t]) =>
            ~fcons[pret.val].dirty

\* C9: connect() with no stored connection, create_db false and no file raises
\* IOError, opens no physical connection and leaves pool.con None, every time.
C9_NotFound ==
    \A t \in Threads :
        (pret.t = t /\ pret.op = "connect" /\ pret.preCon = None
            /\ ~create_db /\ ~pret.preExists) =>
            /\ pret.how = "raise" /\ pret.err = "IOError"
            /\ ~pret.opened
            /\ pool_con[t] = None

C9_Witness ==
    \E t \in Threads :
        /\ pret.t = t /\ pret.op = "connect" /\ pret.err = "IOError" /\ pret.repeat
        /\ pool_con[t] = None /\ ~create_db /\ ~pret.preExists
        /\ fcons = <<>>

\* C10 as stated: once a thread has dropped a connection, its Pool holds none
\* and no later connect() of that thread yields a connection.
C10_DropTerminal ==
    \A t \in Threads :
        Dropped(t) # {} =>
            /\ pool_con[t] = None
            /\ ~(pret.t = t /\ pret.op = "connect" /\ pret.how = "return")

\* C10 amended: drop(con) clears pool.con and closes con; a closed connection
\* is never stored or returned again; and a connect() that finds no stored
\* connection while the file exists or create_db is true, also after a drop,
\* opens and stores a new physical connection.
C10_DropReopens ==
    \A t \in Threads :
        /\ pool_con[t] # None => ~fcons[pool_con[t]].closed
        /\ (pret.t = t /\ pret.op = "drop" /\ pret.how = "return") =>
               pool_con[t] = None /\ fcons[pret.val].closed
        /\ (pret.t = t /\ pret.op = "connect" /\ pret.how = "return") =>
               pret.val = pool_con[t] /\ pret.val \notin Dropped(t)
        /\ (pret.t = t /\ pret.op = "connect" /\ pret.preCon = None
               /\ (create_db \/ pret.preExists)) =>
               pret.opened /\ pool_con[t] # None /\ pool_con[t] \notin Dropped(t)

C10_Witness ==
    \E t \in Threads :
        /\ Dropped(t) # {}
        /\ pret.t = t /\ pret.op = "connect" /\ pret.how = "return" /\ pret.opened
        /\ pool_con[t] = pret.val


\* the connections thread t opened that are not closed
Live(t) == {c \in 1..Len(fcons) : fcons[c].owner = t /\ ~fcons[c].closed}

\* C11: a thread's Pool owns at most one live physical connection: every
\* opened and not closed connection of a thread is the one its pool.con holds,
\* connect() with a stored connection returns it and opens nothing, and a
\* connection is opened only when pool.con was None.
C11_OneLivePerThread ==
    \A t \in Threads :
        /\ Cardinality(Live(t)) <= 1
        /\ Live(t) \subseteq {pool_con[t]}
        /\ (pret.t = t /\ pret.op = "connect" /\ pret.preCon # None) =>
               ~pret.opened /\ pret.how = "return" /\ pret.val = pret.preCon
        /\ (pret.t = t /\ pret.opened) => pret.preCon = None

C11_Witness ==
    \E t \in Threads :
        /\ pret.t = t /\ pret.op = "connect" /\ pret.preCon # None /\ ~pret.opened
        /\ Dropped(t) # {}
        /\ Live(t) = {pool_con[t]}

\* the connections a thread stores or holds are its own, and nobody else's
C12_State ==
    \A a, b \in Threads :
        /\ pool_con[a] # None => fcons[pool_con[a]].owner = a
        /\ hand[a] # None => fcons[hand[a]].owner = a
        /\ (a # b /\ hand[a] # None) => hand[a] # hand[b] /\ hand[a] # pool_con[b]

\* C12: a thread's Pool state is private: pool.con of thread B changes only in
\* an operation that B itself performs, and the connections two threads hold
\* or store are never the same object.
C12_Private ==
    /\ []C12_State
    /\ [][\A b \in Threads : pool_con'[b] # pool_con[b] => pret'.t = b]_vars

C12_Witness ==
    \E a, b \in Threads :
        /\ a # b
        /\ pret.t = a /\ pret.op = "drop" /\ pret.how = "return" /\ pool_con[a] = None
        /\ pool_con[b] # None /\ hand[b] = pool_con[b] /\ ~fcons[hand[b]].closed

\* C18: connect() stores a connection only after _init_connection succeeded
\* on it: a stored or returned connection is initialized, and a connect() whose
\* _init_connection raised leaves pool.con None.
C18_StoreAfterInit ==
    \A t \in Threads :
        /\ pool_con[t] # None => fcons[pool_con[t]].inited
        /\ (pret.t = t /\ pret.op = "connect" /\ pret.how = "return") =>
               fcons[pret.val].inited
        /\ (pret.t = t /\ pret.op = "connect" /\ pret.err = "OperationalError") =>
               pool_con[t] = None


\* the names a proxy class declares as properties
DeclaredProperties(cls) ==
    IF cls = "cursor" THEN SeqRange(sqlite_cur_properties)
    ELSE SeqRange(sqlite_con_properties)

\* the class dictionary has a forwarder for every name of methods and a
\* property of the same name for every name of properties
TableMatches(dict, methods, properties) ==
    /\ \A i \in 1..Len(methods) : dict[methods[i]] = make_wrapper_method(methods[i])
    /\ \A i \in 1..Len(properties) :
           dict[properties[i]] = make_wrapper_property(properties[i])

\* C13: the class dictionary of every proxy that exists matches its declaration
\* lists (each declared method a forwarder, each declared property a property
\* of that name), and every read or write of a declared property on a proxy
\* enqueued a request.
C13_DeclaredCapabilities ==
    /\ Len(obj) > 0 =>
           TableMatches(MemoryConnectionWrapper, sqlite_con_methods, sqlite_con_properties)
    /\ CurHandles # {} =>
           TableMatches(MemoryCursorWrapper, sqlite_cur_methods, sqlite_cur_properties)
    /\ (lastUse.op \in {"get", "set"} /\ lastUse.name \in DeclaredProperties(lastUse.cls))
           => lastUse.put

C15_OnlyWorker == ~lastUse.touched

\* C15 amended: the only use of an underlying object by a caller thread is
\* interrupt() on a connection; every other operation of the proxies reaches
\* the underlying connection or cursor as a request the worker executes.
C15_OnlyInterruptDirect ==
    /\ lastUse.touched => lastUse.op = "interrupt" /\ lastUse.cls = "connection"
    /\ \A i \in 1..Len(cons) : cons[i].dirty =>
           \E r \in Started : putLog[r].func = "execute" /\ ConOf(putLog[r]) = i

C15_Witness ==
    /\ lastUse.touched /\ lastUse.op = "interrupt"
    /\ \E r \in Stored : putLog[r].func = "execute" /\ cons[ConOf(putLog[r])].dirty
    /\ \E r \in Stored : putLog[r].cls = "cursor"

\* C17: a caller never receives a raw cursor: a confined call whose result is
\* a raw cursor returns a new MemoryCursorWrapper around it; and every request
\* made on a cursor proxy is executed by the worker on the cursor it wraps,
\* no caller using that cursor directly.
C17_CursorsWrapped ==
    /\ \A t \in Threads : ret[t].how = "return" =>
           /\ ~IsCursor(ret[t].val)
           /\ (ret[t].rid # None /\ IsCursor(result_holder[ret[t].rid][1])) =>
                  ret[t].val = Value("MemoryCursorWrapper", "", ret[t].rid)
    /\ \A i \in 1..Len(putLog) : putLog[i].cls = "cursor" =>
           /\ putLog[i].w < i
           /\ IsCursor(result_holder[putLog[i].w][1])
           /\ i \in Stored => i \in Started
    /\ lastUse.cls = "cursor" => ~lastUse.touched /\ lastUse.put

C17_Witness ==
    \E t \in Threads :
        /\ ret[t].how = "return" /\ ret[t].val.type = "tuple"
        /\ putLog[ret[t].rid].cls = "cursor" /\ putLog[ret[t].rid].func = "fetchone"
        /\ ret[t].rid \in Started

\* C19: a confined call raises in its caller exactly when its operation raised
\* on the worker, and a value the operation returned, unless it is a raw
\* cursor, is returned to the caller unchanged.
C19_RaisesIffRaised ==
    \A t \in Threads : ret[t].rid # None =>
        LET v == result_holder[ret[t].rid][1] IN
        /\ (ret[t].how = "raise") <=> (v \in raised)
        /\ (v \notin raised /\ ~IsCursor(v)) => ret[t].how = "return" /\ ret[t].val = v


\* C16: the worker never ends because an operation raised: every exception an
\* operation raised is eventually in its request's result holder with the
\* caller signalled, and once an operation has raised no caller stays blocked
\* in lock.acquire() forever.
C16_FailureHandled ==
    /\ [](wpc # "dead")
    /\ \A r \in 1..MaxCalls :
           (\E e \in raised : e.req = r)
               ~> (r \in signalled /\ Len(result_holder[r]) = 1
                      /\ result_holder[r][1] \in raised)
    /\ \A t \in Threads : (raised # {} /\ pc[t] = "acquire") ~> (pc[t] # "acquire")

\* C20: under fair scheduling every confined call a thread issued eventually
\* returns or raises in that thread, and whenever a thread is not inside a
\* confined call its lock is held.
C20_CallsReturn ==
    /\ \A t \in Threads : (pc[t] = "acquire") ~> (pc[t] \notin {"acquire", "read"})
    /\ [](\A t \in Threads : pc[t] \notin {"acquire", "read"} => lock[t])

====
